---------------------------- MODULE Spec2Model ----------------------------
(***************************************************************************)
(* Photo Matcher (App component).  The model covers                        *)
(*   - normalizeIndices, the pure cleaning of the model's index list;      *)
(*   - the parsing step of handleSubmit (JSON.parse, then the regular      *)
(*     expression fallback);                                               *)
(*   - the App's state and its event handlers, with every await of         *)
(*     handleSubmit a separate step.                                       *)
(*                                                                         *)
(* JavaScript values are records [t, k, s, e]:                             *)
(*   t = "int"   a number with the integral value k                        *)
(*   t = "frac"  a finite number that is not integral, k < v < k + 1       *)
(*   t = "nan"   NaN                                                       *)
(*   t = "str"   a string, s its characters (one-character strings)        *)
(*   t = "null", "bool" (k = 1 for true), "arr" (e its elements)           *)
(***************************************************************************)
EXTENDS Integers, Sequences, FiniteSets, TLC

VARIABLES
    \* ---- App state (useState hooks) ----
    apiKey, referencePhoto, groupPhotos, matchedIndices, outputText, loading,
    \* ---- running invocations of handleSubmit ----
    calls,
    \* ---- observation of the last event handled ----
    lastEvent, alerted,
    \* ---- normalizeIndices applied to drawn inputs ----
    raw, groupCount, out, out2, nphase,
    \* ---- the parsing step applied to drawn texts ----
    text, handed, matched, pphase

appVars == <<apiKey, referencePhoto, groupPhotos, matchedIndices, outputText,
             loading, calls, lastEvent, alerted>>
normVars == <<raw, groupCount, out, out2, nphase>>
parseVars == <<text, handed, matched, pphase>>
pureVars == <<normVars, parseVars>>
vars == <<appVars, pureVars>>

---------------------------------------------------------------------------
(* Bounds *)
MaxGroup == 3
MaxLen == 3
MaxTextLen == 5
MaxCalls == 2

---------------------------------------------------------------------------
(* JavaScript values *)
JInt(n) == [t |-> "int", k |-> n, s |-> <<>>, e |-> <<>>]
JFrac(n) == [t |-> "frac", k |-> n, s |-> <<>>, e |-> <<>>]
JNaN == [t |-> "nan", k |-> 0, s |-> <<>>, e |-> <<>>]
JStr(cs) == [t |-> "str", k |-> 0, s |-> cs, e |-> <<>>]
JNull == [t |-> "null", k |-> 0, s |-> <<>>, e |-> <<>>]
JBool(b) == [t |-> "bool", k |-> IF b THEN 1 ELSE 0, s |-> <<>>, e |-> <<>>]
JArr(es) == [t |-> "arr", k |-> 0, s |-> <<>>, e |-> es]

\* Array.isArray(v), typeof v === "string", Number.isInteger(v)
IsArray(v) == v.t = "arr"
IsString(v) == v.t = "str"
NumberIsInteger(v) == v.t = "int"

Digits == {"0", "1", "2", "3", "4", "5", "6", "7", "8", "9"}
DigitVal == ("0" :> 0) @@ ("1" :> 1) @@ ("2" :> 2) @@ ("3" :> 3) @@ ("4" :> 4)
            @@ ("5" :> 5) @@ ("6" :> 6) @@ ("7" :> 7) @@ ("8" :> 8) @@ ("9" :> 9)

\* Characters String.prototype.trim removes.  "NBSP" stands for U+00A0, a
\* white space character that is not JSON white space.
TrimSpace == {" ", "\t", "\n", "\r", "NBSP"}

RECURSIVE TrimLeft(_)
TrimLeft(cs) ==
    IF cs # <<>> /\ Head(cs) \in TrimSpace THEN TrimLeft(Tail(cs)) ELSE cs

RECURSIVE TrimRight(_)
TrimRight(cs) ==
    IF cs # <<>> /\ cs[Len(cs)] \in TrimSpace
    THEN TrimRight(SubSeq(cs, 1, Len(cs) - 1))
    ELSE cs

\* v.trim()
Trim(cs) == TrimLeft(TrimRight(cs))

AllDigits(cs) == \A i \in 1..Len(cs) : cs[i] \in Digits

RECURSIVE DecimalValue(_)
DecimalValue(cs) ==
    IF cs = <<>> THEN 0
    ELSE 10 * DecimalValue(SubSeq(cs, 1, Len(cs) - 1)) + DigitVal[cs[Len(cs)]]

\* Number(cs): StringToNumber on the decimal literals
\*   ws* [+-]? ( digits+ ('.' digits*)? | '.' digits+ ) ws*   and on the empty
\* string (0); every other string of the modelled alphabet is NaN.  Exponents,
\* 0x/0o/0b prefixes and "Infinity" are outside the alphabet the inputs use.
Number(cs) ==
    LET t0 == Trim(cs)
        signed == t0 # <<>> /\ Head(t0) \in {"+", "-"}
        neg == t0 # <<>> /\ Head(t0) = "-"
        body == IF signed THEN Tail(t0) ELSE t0
        dots == {i \in 1..Len(body) : body[i] = "."}
        dot == IF dots = {} THEN Len(body) + 1
               ELSE CHOOSE i \in dots : \A j \in dots : i <= j
        ip == SubSeq(body, 1, dot - 1)
        fp == SubSeq(body, dot + 1, Len(body))
        wellFormed == /\ AllDigits(ip) /\ AllDigits(fp)
                      /\ Len(ip) + Len(fp) > 0
        mag == DecimalValue(ip)
        fracZero == \A i \in 1..Len(fp) : fp[i] = "0"
    IN  IF t0 = <<>> THEN JInt(0)
        ELSE IF ~wellFormed THEN JNaN
        ELSE IF fracZero THEN JInt(IF neg THEN 0 - mag ELSE mag)
        ELSE JFrac(IF neg THEN 0 - mag - 1 ELSE mag)

---------------------------------------------------------------------------
(* normalizeIndices *)

\* faulty variant: numeric strings are passed through without conversion
MapElementNoCoercion(v) == v

\* .map((v) => (typeof v === "string" ? Number(v.trim()) : v))
MapElement(v) == IF IsString(v) THEN Number(Trim(v.s)) ELSE v

\* faulty variant: the lower limit is 0
InRangeFromZero(n, count) == n >= 0 /\ n <= count

\* n >= 1 && n <= groupCount
InRange(n, count) == n >= 1 /\ n <= count

\* Array.from(new Set(ns)): the first occurrence of each value, in order
RECURSIVE Dedupe(_)
Dedupe(ns) ==
    IF ns = <<>> THEN <<>>
    ELSE LET init == Dedupe(SubSeq(ns, 1, Len(ns) - 1))
             last == ns[Len(ns)]
         IN  IF \E i \in 1..Len(init) : init[i] = last
             THEN init ELSE Append(init, last)

\* insertion of n into an ascending sequence, after the elements <= n
RECURSIVE InsertSorted(_, _)
InsertSorted(n, ns) ==
    IF ns = <<>> THEN <<n>>
    ELSE IF n < Head(ns) THEN <<n>> \o ns
    ELSE <<Head(ns)>> \o InsertSorted(n, Tail(ns))

\* cleaned.sort((a, b) => a - b)
RECURSIVE SortAscending(_)
SortAscending(ns) ==
    IF ns = <<>> THEN <<>>
    ELSE InsertSorted(ns[Len(ns)], SortAscending(SubSeq(ns, 1, Len(ns) - 1)))

\* faulty variant: the indices are converted to 0-based ones
normalizeIndicesZeroBased(rawValue, count) ==
    LET arr == IF IsArray(rawValue) THEN rawValue.e ELSE <<>>
        mapped == [i \in 1..Len(arr) |-> MapElement(arr[i])]
        ints == SelectSeq(mapped, NumberIsInteger)
        nums == [i \in 1..Len(ints) |-> ints[i].k]
        ranged == SelectSeq(nums, LAMBDA n : InRange(n, count))
        cleaned == Dedupe(ranged)
        sorted == SortAscending(cleaned)
    IN  [i \in 1..Len(sorted) |-> sorted[i] - 1]

normalizeIndices(rawValue, count) ==
    LET arr == IF IsArray(rawValue) THEN rawValue.e ELSE <<>>
        mapped == [i \in 1..Len(arr) |-> MapElement(arr[i])]
        ints == SelectSeq(mapped, NumberIsInteger)
        nums == [i \in 1..Len(ints) |-> ints[i].k]
        ranged == SelectSeq(nums, LAMBDA n : InRange(n, count))
        cleaned == Dedupe(ranged)
    IN  SortAscending(cleaned)

---------------------------------------------------------------------------
\* JSON.parse on character sequences.  The grammar covered:
\*   value  ::= array | number | string | true | false | null
\*   array  ::= '[' ws ']'  |  '[' ws value ws { ',' ws value ws } ']'
\*   number ::= ['-'] ( '0' | nonzero-digit {digit} ) [ '.' digit {digit} ]
\*   string ::= '"' { any character but '"', backslash and controls } '"'
\* Objects, exponents and escapes are outside the alphabet the texts use.

JsonSpace == {" ", "\t", "\n", "\r"}
ControlChars == {"\t", "\n", "\r"}
ParseFail == [ok |-> FALSE, v |-> JNull, p |-> 0]
ParseOk(val, next) == [ok |-> TRUE, v |-> val, p |-> next]

\* the first position >= i holding a character outside set, or Len(cs) + 1
RECURSIVE SkipWhile(_, _, _)
SkipWhile(cs, i, set) ==
    IF i <= Len(cs) /\ cs[i] \in set THEN SkipWhile(cs, i + 1, set) ELSE i

SkipWs(cs, i) == SkipWhile(cs, i, JsonSpace)

HasAt(cs, i, word) ==
    /\ i + Len(word) - 1 <= Len(cs)
    /\ SubSeq(cs, i, i + Len(word) - 1) = word

ParseNumber(cs, i) ==
    LET neg == i <= Len(cs) /\ cs[i] = "-"
        j == IF neg THEN i + 1 ELSE i
        intEnd == IF j <= Len(cs) /\ cs[j] = "0" THEN j + 1
                  ELSE SkipWhile(cs, j, Digits)
        hasDot == intEnd <= Len(cs) /\ cs[intEnd] = "."
        fracEnd == IF hasDot THEN SkipWhile(cs, intEnd + 1, Digits) ELSE intEnd
        mag == DecimalValue(SubSeq(cs, j, intEnd - 1))
        fp == SubSeq(cs, intEnd + 1, fracEnd - 1)
        fracZero == \A x \in 1..Len(fp) : fp[x] = "0"
    IN  IF intEnd = j THEN ParseFail
        ELSE IF hasDot /\ fracEnd = intEnd + 1 THEN ParseFail
        ELSE IF fracZero THEN ParseOk(JInt(IF neg THEN 0 - mag ELSE mag), fracEnd)
        ELSE ParseOk(JFrac(IF neg THEN 0 - mag - 1 ELSE mag), fracEnd)

ParseString(cs, i) ==
    LET close == SkipWhile(cs, i + 1, {cs[x] : x \in 1..Len(cs)} \ {"\""})
        inner == SubSeq(cs, i + 1, close - 1)
    IN  IF close > Len(cs) THEN ParseFail
        ELSE IF \E x \in 1..Len(inner) : inner[x] \in ControlChars \cup {"\\"}
        THEN ParseFail
        ELSE ParseOk(JStr(inner), close + 1)

RECURSIVE ParseValue(_, _)
RECURSIVE ParseElements(_, _, _)

\* the value starting at position i (white space already skipped)
ParseValue(cs, i) ==
    IF i > Len(cs) THEN ParseFail
    ELSE IF cs[i] = "[" THEN
        LET j == SkipWs(cs, i + 1)
        IN  IF j <= Len(cs) /\ cs[j] = "]" THEN ParseOk(JArr(<<>>), j + 1)
            ELSE ParseElements(cs, j, <<>>)
    ELSE IF cs[i] = "\"" THEN ParseString(cs, i)
    ELSE IF cs[i] \in Digits \cup {"-"} THEN ParseNumber(cs, i)
    ELSE IF HasAt(cs, i, <<"t", "r", "u", "e">>) THEN ParseOk(JBool(TRUE), i + 4)
    ELSE IF HasAt(cs, i, <<"f", "a", "l", "s", "e">>) THEN ParseOk(JBool(FALSE), i + 5)
    ELSE IF HasAt(cs, i, <<"n", "u", "l", "l">>) THEN ParseOk(JNull, i + 4)
    ELSE ParseFail

\* the elements of an array from position i on, acc those already read
ParseElements(cs, i, acc) ==
    LET r == ParseValue(cs, i)
        j == SkipWs(cs, r.p)
    IN  IF ~r.ok \/ j > Len(cs) THEN ParseFail
        ELSE IF cs[j] = "]" THEN ParseOk(JArr(Append(acc, r.v)), j + 1)
        ELSE IF cs[j] = "," THEN ParseElements(cs, SkipWs(cs, j + 1), Append(acc, r.v))
        ELSE ParseFail

\* JSON.parse(cs): ok = FALSE stands for the SyntaxError it throws
JSONParse(cs) ==
    LET r == ParseValue(cs, SkipWs(cs, 1))
    IN  IF r.ok /\ SkipWs(cs, r.p) = Len(cs) + 1 THEN r ELSE ParseFail

---------------------------------------------------------------------------
\* output.match(/\[[\d,\s]+\]/)

RegexSpace == {" ", "\t", "\n", "\r", "NBSP"}
RegexClass == Digits \cup {","} \cup RegexSpace

\* the end of the match that starts at i, or 0 when none starts there
MatchEndAt(cs, i) ==
    LET j == SkipWhile(cs, i + 1, RegexClass)
    IN  IF cs[i] = "[" /\ j > i + 1 /\ j <= Len(cs) /\ cs[j] = "]" THEN j ELSE 0

\* the leftmost match, <<>> standing for null (every match holds "[" and "]")
RegexMatch(cs) ==
    LET starts == {i \in 1..Len(cs) : MatchEndAt(cs, i) # 0}
    IN  IF starts = {} THEN <<>>
        ELSE LET i == CHOOSE x \in starts : \A y \in starts : x <= y
             IN  SubSeq(cs, i, MatchEndAt(cs, i))

\* faulty variant: the bracketed match is tried before the direct parse
ParseModelOutputMatchFirst(output) ==
    LET direct == JSONParse(output)
        m == RegexMatch(output)
        second == JSONParse(m)
    IN  IF m # <<>> /\ second.ok THEN second.v
        ELSE IF direct.ok THEN direct.v
        ELSE JArr(<<>>)

\* The value of `parsed` handed to normalizeIndices: the direct parse, else
\* the parse of the first bracketed match, else the initial [].
ParseModelOutput(output) ==
    LET direct == JSONParse(output)
        m == RegexMatch(output)
        second == JSONParse(m)
    IN  IF direct.ok THEN direct.v
        ELSE IF m # <<>> /\ second.ok THEN second.v
        ELSE JArr(<<>>)

---------------------------------------------------------------------------
(* Inputs of the pure functions *)

\* all sequences over set of length at most n
SeqUpTo(set, n) == UNION {[1..m -> set] : m \in 0..n}

NotAList == <<"n", "o", "t", " ", "a", " ", "l", "i", "s", "t">>

IntElems == {JInt(n) : n \in 0..(MaxGroup + 1)}
StrElems == {JStr(<<"2">>), JStr(<<" ", "3", " ">>), JStr(<<"x">>),
             JStr(<<>>), JStr(<<"1", ".", "0">>)}
OtherElems == {JFrac(2), JNull, JArr(<<JInt(1)>>)}
Elems == IntElems \cup StrElems \cup OtherElems

RawInputs == {JArr(es) : es \in SeqUpTo(Elems, MaxLen)}
             \cup {JStr(NotAList), JNull, JInt(1)}

\* the examples of the specification's section 8
ExDedupSort == <<JArr(<<JInt(3), JInt(1), JInt(2), JInt(1)>>), 5>>
ExStrings == <<JArr(<<JStr(<<"2">>), JStr(<<"4">>)>>), 4>>
ExInvalid == <<JArr(<<JInt(0), JInt(6), JStr(<<"x">>), JFrac(2)>>), 5>>
ExNotAList == <<JStr(NotAList), 5>>
ExEmpty == <<JArr(<<>>), 0>>
Examples == {ExDedupSort, ExStrings, ExInvalid, ExNotAList, ExEmpty}

TextChars == {"[", "]", ",", " ", "0", "1", "3", "x"}

HereYouGo == <<"H", "e", "r", "e", " ", "y", "o", "u", " ", "g", "o", ":",
               " ", "[", "1", ",", " ", "3", "]">>
ExampleTexts ==
    { HereYouGo,
      <<"[", "\"", "1", "\"", ",", " ", "\"", "3", "\"", "]">>,
      <<"[", "0", "1", ",", "3", "]">>,
      <<"x", "[", "1", ",", "NBSP", "3", "]">>,
      <<"[", ",", "]", " ", "[", "1", ",", "3", "]">>,
      <<"[", "1", ".", "0", ",", " ", "2", ".", "5", ",", "-", "1", "]">>,
      <<"n", "u", "l", "l">>,
      <<"I", "m", "a", "g", "e", "s", " ", "1", " ", "a", "n", "d", " ", "3">> }

Texts == SeqUpTo(TextChars, MaxTextLen) \cup ExampleTexts

\* an array of integers as the JavaScript value it is
ArrayOf(ns) == JArr([i \in 1..Len(ns) |-> JInt(ns[i])])

---------------------------------------------------------------------------
(* The App: state, event handlers, and the steps of handleSubmit *)

Keys == {"", "sk-test"}
Photos == {"a.jpg", "b.jpg"}
\* referencePhoto: null at first, undefined after files[0] of an empty FileList
NoPhoto == {"null", "undefined"}

\* the texts the remote model answers with; <<>> is the `|| ""` of line 89
AppTexts ==
    { <<>>,
      <<"[", "3", ",", "1", "]">>,
      HereYouGo,
      <<"[", "2", ",", "2", ",", "9", "]">> }

Slots == 1..MaxCalls

\* an invocation of handleSubmit:
\*   pc          where it stands: "idle" (no invocation yet), the await it is
\*               suspended at ("encodeRef", "encodeGroup", "fetch", "json"),
\*               "returned", or "rejected" (its promise rejected)
\*   count       groupPhotos.length of the render it closed over
\*   refDone     the reference image is encoded
\*   groupDone   how many group images are encoded
\*   reqs        fetch calls issued
\*   sets        setMatchedIndices(normalized) calls made
\*   outcome     "ok", or the error the catch block logged
\*   hadResults  matchedIndices was non-empty when the button was clicked
IdleCall == [pc |-> "idle", count |-> 0, refDone |-> FALSE, groupDone |-> 0,
             reqs |-> 0, sets |-> 0, outcome |-> "none", hadResults |-> FALSE]

NewCall(count, had) ==
    [pc |-> "encodeRef", count |-> count, refDone |-> FALSE, groupDone |-> 0,
     reqs |-> 0, sets |-> 0, outcome |-> "none", hadResults |-> had]

Running(c) == calls[c].pc \in {"encodeRef", "encodeGroup", "fetch", "json"}

AppInit ==
    /\ apiKey = ""
    /\ referencePhoto = "null"
    /\ groupPhotos = <<>>
    /\ matchedIndices = <<>>
    /\ outputText = <<>>
    /\ loading = FALSE
    /\ calls = [c \in Slots |-> IdleCall]
    /\ lastEvent = "init"
    /\ alerted = FALSE

\* onChange={(e) => setApiKey(e.target.value)}
setApiKey ==
    /\ \E key \in Keys : apiKey' = key
    /\ lastEvent' = "input"
    /\ alerted' = FALSE
    /\ UNCHANGED <<referencePhoto, groupPhotos, matchedIndices, outputText,
                   loading, calls, pureVars>>

\* files: the FileList of the change event (null: e.target.files is missing)
handleReferenceChange ==
    /\ \E present \in BOOLEAN, files \in SeqUpTo(Photos, 1) :
          referencePhoto' = IF ~present THEN referencePhoto
                            ELSE IF files = <<>> THEN "undefined"
                            ELSE files[1]
    /\ lastEvent' = "input"
    /\ alerted' = FALSE
    /\ UNCHANGED <<apiKey, groupPhotos, matchedIndices, outputText, loading,
                   calls, pureVars>>

handleGroupChange ==
    /\ \E present \in BOOLEAN, files \in SeqUpTo(Photos, MaxGroup) :
          groupPhotos' = IF present THEN files ELSE groupPhotos
    /\ lastEvent' = "input"
    /\ alerted' = FALSE
    /\ UNCHANGED <<apiKey, referencePhoto, matchedIndices, outputText, loading,
                   calls, pureVars>>

\* faulty variant: the group photos are not checked
InputsMissingNoGroupCheck(key, ref, group) ==
    key = "" \/ ref \in NoPhoto

\* !apiKey || !referencePhoto || groupPhotos.length === 0
InputsMissing(key, ref, group) ==
    key = "" \/ ref \in NoPhoto \/ Len(group) = 0

\* faulty variant: the button is never disabled
ButtonAlwaysEnabled == TRUE

\* <button onClick={handleSubmit} disabled={loading}>
ButtonEnabled == ~loading

\* faulty variant: the previous matches are kept
KeepMatched(previous) == previous

\* setMatchedIndices([]) and setOutputText("") at the start of a submission
ResetMatched(previous) == <<>>
ResetOutput(previous) == <<>>

\* A click on Compare: handleSubmit up to its first await.
handleSubmit ==
    /\ ButtonEnabled
    /\ lastEvent' = "submit"
    /\ UNCHANGED pureVars
    /\ IF InputsMissing(apiKey, referencePhoto, groupPhotos)
       THEN /\ alerted' = TRUE
            /\ UNCHANGED <<apiKey, referencePhoto, groupPhotos, matchedIndices,
                           outputText, loading, calls>>
       ELSE /\ \E c \in Slots :
                 /\ ~Running(c)
                 /\ \A d \in Slots : ~Running(d) => c <= d
                 /\ calls' = [calls EXCEPT ![c] =
                                NewCall(Len(groupPhotos), matchedIndices # <<>>)]
            /\ alerted' = FALSE
            /\ loading' = TRUE
            /\ matchedIndices' = ResetMatched(matchedIndices)
            /\ outputText' = ResetOutput(outputText)
            /\ UNCHANGED <<apiKey, referencePhoto, groupPhotos>>

asyncFrame == /\ lastEvent' = "async"
              /\ alerted' = FALSE
              /\ UNCHANGED <<apiKey, referencePhoto, groupPhotos, pureVars>>

\* reader.onloadend of the reference image: await encodeImage(referencePhoto)
\* resumes and starts a reader for every group photo
EncodeRefDone(c) ==
    /\ calls[c].pc = "encodeRef"
    /\ calls' = [calls EXCEPT ![c].pc = "encodeGroup", ![c].refDone = TRUE]
    /\ asyncFrame
    /\ UNCHANGED <<matchedIndices, outputText, loading>>

\* reader.onerror of the reference image: the await outside the try block
\* throws, the promise of handleSubmit rejects
EncodeRefFail(c) ==
    /\ calls[c].pc = "encodeRef"
    /\ calls' = [calls EXCEPT ![c].pc = "rejected", ![c].outcome = "encodeError"]
    /\ asyncFrame
    /\ UNCHANGED <<matchedIndices, outputText, loading>>

\* reader.onloadend of one group image
EncodeGroupDone(c) ==
    /\ calls[c].pc = "encodeGroup"
    /\ calls[c].groupDone < calls[c].count
    /\ calls' = [calls EXCEPT ![c].groupDone = @ + 1]
    /\ asyncFrame
    /\ UNCHANGED <<matchedIndices, outputText, loading>>

\* reader.onerror of one group image: Promise.all rejects
EncodeGroupFail(c) ==
    /\ calls[c].pc = "encodeGroup"
    /\ calls[c].groupDone < calls[c].count
    /\ calls' = [calls EXCEPT ![c].pc = "rejected", ![c].outcome = "encodeError"]
    /\ asyncFrame
    /\ UNCHANGED <<matchedIndices, outputText, loading>>

\* faulty variant: the request does not wait for the group encodings
IssueRequestEarly(c) ==
    /\ calls[c].pc = "encodeGroup"
    /\ calls' = [calls EXCEPT ![c].pc = "fetch", ![c].reqs = @ + 1]
    /\ asyncFrame
    /\ UNCHANGED <<matchedIndices, outputText, loading>>

\* Promise.all resolved: fetch(...) is called
IssueRequest(c) ==
    /\ calls[c].pc = "encodeGroup"
    /\ calls[c].groupDone = calls[c].count
    /\ calls' = [calls EXCEPT ![c].pc = "fetch", ![c].reqs = @ + 1]
    /\ asyncFrame
    /\ UNCHANGED <<matchedIndices, outputText, loading>>

\* the fetch promise resolves: response.json() is called
FetchResolve(c) ==
    /\ calls[c].pc = "fetch"
    /\ calls' = [calls EXCEPT ![c].pc = "json"]
    /\ asyncFrame
    /\ UNCHANGED <<matchedIndices, outputText, loading>>

\* catch (err) { console.error } finally { setLoading(false) }
CatchAndFinish(c, error) ==
    /\ calls' = [calls EXCEPT ![c].pc = "returned", ![c].outcome = error]
    /\ loading' = FALSE
    /\ asyncFrame
    /\ UNCHANGED <<matchedIndices, outputText>>

\* the fetch promise rejects (network error)
FetchReject(c) ==
    /\ calls[c].pc = "fetch"
    /\ CatchAndFinish(c, "networkError")

\* response.json() rejects: the body is not JSON
JsonReject(c) ==
    /\ calls[c].pc = "json"
    /\ CatchAndFinish(c, "bodyError")

\* response.json() resolves with null: data.output throws a TypeError
JsonResolveNull(c) ==
    /\ calls[c].pc = "json"
    /\ CatchAndFinish(c, "envelopeError")

\* response.json() resolves with an envelope whose text is t (<<>> when the
\* text is missing): lines 89-109, then the finally block
JsonResolveText(c) ==
    /\ calls[c].pc = "json"
    /\ \E t \in AppTexts :
          /\ outputText' = t
          /\ matchedIndices' = normalizeIndices(ParseModelOutput(t), calls[c].count)
    /\ calls' = [calls EXCEPT ![c].pc = "returned", ![c].outcome = "ok",
                              ![c].sets = @ + 1]
    /\ loading' = FALSE
    /\ asyncFrame

Next ==
    \/ setApiKey
    \/ handleReferenceChange
    \/ handleGroupChange
    \/ handleSubmit
    \/ \E c \in Slots : EncodeRefDone(c)
    \/ \E c \in Slots : EncodeRefFail(c)
    \/ \E c \in Slots : EncodeGroupDone(c)
    \/ \E c \in Slots : EncodeGroupFail(c)
    \/ \E c \in Slots : IssueRequest(c)
    \/ \E c \in Slots : FetchResolve(c)
    \/ \E c \in Slots : FetchReject(c)
    \/ \E c \in Slots : JsonReject(c)
    \/ \E c \in Slots : JsonResolveNull(c)
    \/ \E c \in Slots : JsonResolveText(c)

---------------------------------------------------------------------------
(* normalizeIndices and the parsing step on drawn inputs *)

NormIdle ==
    /\ raw = JNull /\ groupCount = 0 /\ out = <<>> /\ out2 = <<>>
    /\ nphase = "off"

ParseIdle ==
    /\ text = <<>> /\ handed = JNull /\ matched = <<>> /\ pphase = "off"

InitNormalize ==
    /\ \E input \in (RawInputs \X (0..MaxGroup)) \cup Examples :
          raw = input[1] /\ groupCount = input[2]
    /\ out = <<>> /\ out2 = <<>>
    /\ nphase = "input"
    /\ AppInit /\ ParseIdle

\* out = normalizeIndices(raw, groupCount)
Normalize ==
    /\ nphase = "input"
    /\ out' = normalizeIndices(raw, groupCount)
    /\ nphase' = "normalized"
    /\ UNCHANGED <<raw, groupCount, out2, appVars, parseVars>>

\* out2 = normalizeIndices(out, groupCount)
Renormalize ==
    /\ nphase = "normalized"
    /\ out2' = normalizeIndices(ArrayOf(out), groupCount)
    /\ nphase' = "renormalized"
    /\ UNCHANGED <<raw, groupCount, out, appVars, parseVars>>

NextNormalize == Normalize \/ Renormalize

InitParse ==
    /\ text \in Texts
    /\ groupCount = MaxGroup
    /\ handed = JNull /\ matched = <<>>
    /\ pphase = "text"
    /\ raw = JNull /\ out = <<>> /\ out2 = <<>> /\ nphase = "off"
    /\ AppInit

\* lines 92-106: parsed
ParseText ==
    /\ pphase = "text"
    /\ handed' = ParseModelOutput(text)
    /\ pphase' = "parsed"
    /\ UNCHANGED <<text, matched, appVars, normVars>>

\* line 108: normalized
NormalizeParsed ==
    /\ pphase = "parsed"
    /\ matched' = normalizeIndices(handed, groupCount)
    /\ pphase' = "done"
    /\ UNCHANGED <<text, handed, appVars, normVars>>

NextParse == ParseText \/ NormalizeParsed

---------------------------------------------------------------------------
(* Specifications *)

Init == AppInit /\ NormIdle /\ ParseIdle
Spec == Init /\ [][Next]_vars

SpecNormalize == InitNormalize /\ [][NextNormalize]_vars
SpecParse == InitParse /\ [][NextParse]_vars

---------------------------------------------------------------------------
(* Properties *)

StrictlyAscending(ns) == \A i \in 1..Len(ns), j \in 1..Len(ns) : i < j => ns[i] < ns[j]
Elements(ns) == {ns[i] : i \in 1..Len(ns)}

\* C1: for every group count and every raw input, the result of
\* normalizeIndices is strictly ascending (hence free of duplicates), each of
\* its elements is an integer of [1, groupCount], and it is empty when
\* groupCount = 0.
C1_NormalizedIsValid ==
    nphase \in {"normalized", "renormalized"} =>
        /\ StrictlyAscending(out)
        /\ \A i \in 1..Len(out) : out[i] \in Int /\ 1 <= out[i] /\ out[i] <= groupCount
        /\ groupCount = 0 => out = <<>>

\* an unsorted array with an out-of-range entry was normalized to two indices
C1_Witness ==
    /\ nphase = "normalized"
    /\ IsArray(raw)
    /\ \E i, j \in 1..Len(raw.e) :
          /\ i < j
          /\ raw.e[i].t = "int" /\ raw.e[j].t = "int"
          /\ raw.e[j].k >= 1 /\ raw.e[i].k > raw.e[j].k /\ raw.e[i].k <= groupCount
    /\ \E i \in 1..Len(raw.e) : raw.e[i].t = "int" /\ raw.e[i].k > groupCount
    /\ Len(out) = 2

\* element v stands for the integer n: it is n, or a string converting to n
Contributes(v, n) ==
    \/ v.t = "int" /\ v.k = n
    \/ v.t = "str" /\ Number(Trim(v.s)) = JInt(n)

ContributedSet(rawValue, count) ==
    IF rawValue.t = "arr"
    THEN {n \in 1..count : \E i \in 1..Len(rawValue.e) : Contributes(rawValue.e[i], n)}
    ELSE {}

\* C2: the result of normalizeIndices(raw, g) is exactly the ascending
\* enumeration of the integers n of [1, g] that some element of raw is, or
\* converts to as a trimmed numeric string; elements of any other kind add
\* nothing and a raw value that is not a list gives the empty sequence.  The
\* four examples of the specification come out as stated.
C2_NormalizedIsExact ==
    nphase \in {"normalized", "renormalized"} =>
        /\ StrictlyAscending(out)
        /\ Elements(out) = ContributedSet(raw, groupCount)
        /\ ~IsArray(raw) => out = <<>>
        /\ <<raw, groupCount>> = ExDedupSort => out = <<1, 2, 3>>
        /\ <<raw, groupCount>> = ExStrings => out = <<2, 4>>
        /\ <<raw, groupCount>> = ExInvalid => out = <<>>
        /\ <<raw, groupCount>> = ExNotAList => out = <<>>

\* a padded numeric string and a number gave two indices while a non-integral
\* number, a nested array or a non-numeric string gave none
C2_Witness ==
    /\ nphase = "normalized"
    /\ IsArray(raw)
    /\ \E i \in 1..Len(raw.e) : raw.e[i] = JStr(<<" ", "3", " ">>)
    /\ \E i \in 1..Len(raw.e) : raw.e[i] \in {JFrac(2), JStr(<<"x">>), JArr(<<JInt(1)>>)}
    /\ \E i \in 1..Len(raw.e) : raw.e[i] = JInt(1)
    /\ out = <<1, 3>>

\* C3: normalizing a normalized sequence against the same group count gives
\* the same sequence.
C3_Idempotent == nphase = "renormalized" => out2 = out

\* a result of two indices was normalized again
C3_Witness ==
    /\ nphase = "renormalized"
    /\ Len(out) >= 2
    /\ out2 = out
    /\ IsArray(raw) /\ Len(raw.e) > Len(out)

\* cs[i..j] is '[', one or more digits, commas or white space, then ']'
IsBracketed(cs, i, j) ==
    /\ i + 1 < j
    /\ cs[i] = "[" /\ cs[j] = "]"
    /\ \A x \in (i + 1)..(j - 1) :
          cs[x] \in Digits \cup {",", " ", "\t", "\n", "\r", "NBSP"}

BracketedSpans(cs) ==
    {p \in (1..Len(cs)) \X (1..Len(cs)) : IsBracketed(cs, p[1], p[2])}

\* the first bracketed substring of cs (there must be one)
FirstBracketed(cs) ==
    LET p == CHOOSE q \in BracketedSpans(cs) :
                 \A r \in BracketedSpans(cs) : q[1] <= r[1]
    IN  SubSeq(cs, p[1], p[2])

FallbackParses(cs) ==
    BracketedSpans(cs) # {} /\ JSONParse(FirstBracketed(cs)).ok

\* C4: the value handed to the normalizer is the directly parsed value when
\* the whole text parses; otherwise the parse of the first bracketed
\* substring when there is one and it parses; otherwise the empty list.  The
\* text "Here you go: [1, 3]" gives the matched indices [1, 3], and a text for
\* which both attempts fail gives none.
C4_ParsingPolicy ==
    pphase \in {"parsed", "done"} =>
        /\ JSONParse(text).ok => handed = JSONParse(text).v
        /\ ~JSONParse(text).ok /\ FallbackParses(text)
              => handed = JSONParse(FirstBracketed(text)).v
        /\ ~JSONParse(text).ok /\ ~FallbackParses(text) => handed = JArr(<<>>)
        /\ pphase = "done" /\ text = HereYouGo => matched = <<1, 3>>
        /\ pphase = "done" /\ ~JSONParse(text).ok /\ ~FallbackParses(text)
              => matched = <<>>

\* the example text went through the fallback and gave [1, 3]
C4_Witness ==
    /\ pphase = "done"
    /\ text = HereYouGo
    /\ ~JSONParse(text).ok
    /\ handed = JArr(<<JInt(1), JInt(3)>>)
    /\ matched = <<1, 3>>

\* C5: a click on Compare while the credential is empty, no reference photo
\* is selected or no group photo is selected alerts the user and changes
\* nothing: no invocation starts encoding or requesting, and loading,
\* matchedIndices, outputText, apiKey, referencePhoto and groupPhotos stay.
C5_MissingInputsAbort ==
    [][ ( /\ lastEvent' = "submit"
          /\ \/ apiKey = ""
             \/ referencePhoto \in {"null", "undefined"}
             \/ groupPhotos = <<>> )
        => ( /\ alerted'
             /\ UNCHANGED <<loading, matchedIndices, outputText, apiKey,
                            referencePhoto, groupPhotos, calls>> ) ]_vars

\* the user was alerted while the results of an earlier submission are shown
C5_Witness ==
    /\ lastEvent = "submit"
    /\ alerted
    /\ matchedIndices # <<>>
    /\ outputText # <<>>
    /\ ~loading

Failures == {"networkError", "bodyError", "envelopeError"}

Unparsable(cs) ==
    /\ ~JSONParse(cs).ok
    /\ RegexMatch(cs) = <<>> \/ ~JSONParse(RegexMatch(cs)).ok

\* C6: a validated submission empties matchedIndices when it starts; when
\* its request fails, or its response body or the model text cannot be
\* parsed, matchedIndices is empty once it has returned; and it calls
\* setMatchedIndices with a normalized result at most once, only on a
\* response that was read.
C6_FailureDegradesToEmpty ==
    [][ \A c \in Slots :
          /\ ~Running(c) /\ calls'[c].pc = "encodeRef" => matchedIndices' = <<>>
          /\ Running(c) /\ calls'[c].pc = "returned" /\ calls'[c].outcome \in Failures
                => matchedIndices' = <<>>
          /\ Running(c) /\ calls'[c].pc = "returned" /\ calls'[c].outcome = "ok"
                /\ Unparsable(outputText')
                => matchedIndices' = <<>>
          /\ calls'[c].sets <= 1
          /\ calls'[c].sets > calls[c].sets =>
                calls'[c].outcome = "ok" /\ calls'[c].pc = "returned"
      ]_vars

\* a submission made while results were shown failed and left no matches
C6_Witness ==
    \E c \in Slots :
        /\ calls[c].pc = "returned"
        /\ calls[c].outcome \in Failures
        /\ calls[c].hadResults
        /\ calls[c].sets = 0
        /\ matchedIndices = <<>>
        /\ lastEvent = "async"

\* C7: once every asynchronous step of a validated submission has completed
\* or failed, loading is false again.
C7_ReadyWhenSettled ==
    (\A c \in Slots : ~Running(c)) => loading = FALSE

\* C8: at most one invocation of handleSubmit is between its start and its
\* end, so at most one request is outstanding, and loading is true all the
\* while.
C8_AtMostOneOutstanding ==
    /\ Cardinality({c \in Slots : Running(c)}) <= 1
    /\ Cardinality({c \in Slots : calls[c].pc \in {"fetch", "json"}}) <= 1
    /\ \A c \in Slots : Running(c) => loading

\* a second submission has its request in flight while the user has selected
\* other group photos
C8_Witness ==
    \E c \in Slots :
        /\ calls[c].pc = "fetch"
        /\ calls[c].hadResults
        /\ Len(groupPhotos) # calls[c].count
        /\ loading

\* C9: an invocation issues at most one request, only after the reference
\* image and every group image are encoded, none when an encoding failed, and
\* none after a failed request or an unreadable response.
C9_OneRequestPerSubmission ==
    \A c \in Slots :
        /\ calls[c].reqs <= 1
        /\ calls[c].reqs = 1 => calls[c].refDone /\ calls[c].groupDone = calls[c].count
        /\ calls[c].outcome = "encodeError" => calls[c].reqs = 0
        /\ calls[c].pc = "returned" => calls[c].reqs = 1

\* a submission whose request failed has returned with one request issued
C9_Witness ==
    \E c \in Slots :
        /\ calls[c].pc = "returned"
        /\ calls[c].outcome \in {"networkError", "bodyError"}
        /\ calls[c].reqs = 1
        /\ calls[c].count >= 2

\* C10: matchedIndices is always a duplicate-free ascending subset of
\* 1 .. groupPhotos.length, the photos currently selected.
C10_MatchedWithinCurrentGroup ==
    /\ StrictlyAscending(matchedIndices)
    /\ \A i \in 1..Len(matchedIndices) :
          1 <= matchedIndices[i] /\ matchedIndices[i] <= Len(groupPhotos)

===========================================================================
